---------------------------- MODULE Spec2Model ----------------------------
(***************************************************************************)
(* Advanced Auto-Exporter (src/exporter/export.py): the name-modifier      *)
(* parser, the scope resolvers, the path resolver, the modifier            *)
(* validation, the export entry points and the export ledger with its      *)
(* orphan cleanup, as a state machine.                                     *)
(*                                                                         *)
(* Strings are sequences of one-character strings, so that the regular     *)
(* expressions of the source are computed character by character.          *)
(***************************************************************************)
EXTENDS Integers, Sequences, FiniteSets, TLC

VARIABLES
    objects,        \* bpy.data.objects: [Obj -> [name, type, parent, hide, hide_render, layers]]
    matrix_world,   \* obj.matrix_world translation of every object
    selected_objects, \* context.selected_objects
    broken,         \* the objects the host's format exporter raises on
    scene_props,    \* context.scene.advanced_glb_props
    prefs,          \* the add-on preferences
    is_exporting,   \* ExportState.is_exporting
    stack,          \* the export calls in progress, innermost last
    calls,          \* how many times an export entry point was invoked
    last,           \* what the last finished export call did
    disk,           \* the files that exist
    dirs,           \* the directories that exist
    track_file,     \* the contents of the tracking file
    now,            \* the host clock: how many times datetime.now() was read
    recorded,       \* the runs update_track_file has saved, oldest first
    parsed,         \* parse_modifiers(name) of every name in the scene
    result          \* the value returned by the last resolver / validator call

vars == <<objects, matrix_world, selected_objects, broken, scene_props, prefs,
          is_exporting, stack, calls, last, disk, dirs, track_file, now, recorded,
          parsed, result>>

(***************************************************************************)
(* Bounds of the model.                                                    *)
(***************************************************************************)
NumObjects == 3
MaxRecords == 12
MaxCalls == 2

Obj == 1..NumObjects
None == 0

(***************************************************************************)
(* Characters and strings.                                                 *)
(***************************************************************************)
IsSpace(c) == c \in {" ", "\t"}

\* the separator class [\s\-] of every modifier pattern
IsSep(c) == IsSpace(c) \/ c = "-"

UpperCase == <<"A", "B", "C", "D", "E", "F", "G", "H", "I", "J", "K", "L", "M",
               "N", "O", "P", "Q", "R", "S", "T", "U", "V", "W", "X", "Y", "Z">>
LowerCase == <<"a", "b", "c", "d", "e", "f", "g", "h", "i", "j", "k", "l", "m",
               "n", "o", "p", "q", "r", "s", "t", "u", "v", "w", "x", "y", "z">>
LowerOf == [c \in {UpperCase[i] : i \in DOMAIN UpperCase} |->
              LowerCase[CHOOSE i \in DOMAIN UpperCase : UpperCase[i] = c]]

\* re.IGNORECASE and str.upper() comparisons: the letter in lower case
Lower(c) == IF c \in DOMAIN LowerOf THEN LowerOf[c] ELSE c

RECURSIVE LStrip(_)
LStrip(s) == IF s # <<>> /\ IsSpace(Head(s)) THEN LStrip(Tail(s)) ELSE s

RECURSIVE RStrip(_)
RStrip(s) ==
    IF s # <<>> /\ IsSpace(s[Len(s)]) THEN RStrip(SubSeq(s, 1, Len(s) - 1)) ELSE s

\* str.strip()
Strip(s) == RStrip(LStrip(s))

\* the length of the run of non-whitespace characters of s that starts at i
RECURSIVE NonSpaceRun(_, _)
NonSpaceRun(s, i) ==
    IF i > Len(s) \/ IsSpace(s[i]) THEN 0 ELSE 1 + NonSpaceRun(s, i + 1)

\* A modifier pattern [\s\-]<lit> or, with tail, [\s\-]<lit>[^\s]+
Pattern(lit, tail) == [lit |-> lit, tail |-> tail]

PAT_DIR  == Pattern(<<"d", "i", "r", ":">>, TRUE)
PAT_SEP  == Pattern(<<"s", "e", "p">>, FALSE)
PAT_DK   == Pattern(<<"d", "k">>, FALSE)
PAT_SK   == Pattern(<<"s", "k">>, FALSE)
PAT_ANIM == Pattern(<<"a", "n", "i", "m">>, FALSE)

\* the length of the match of pat that starts at position i of s, 0 when none
MatchLen(pat, s, i) ==
    LET n == Len(pat.lit) IN
    IF /\ i + n <= Len(s)
       /\ IsSep(s[i])
       /\ \A k \in 1..n : Lower(s[i + k]) = pat.lit[k]
    THEN IF pat.tail
         THEN (IF NonSpaceRun(s, i + n + 1) > 0
               THEN 1 + n + NonSpaceRun(s, i + n + 1) ELSE 0)
         ELSE 1 + n
    ELSE 0

\* re.finditer: the start positions of the non-overlapping matches, left to right
RECURSIVE FindAll(_, _, _)
FindAll(pat, s, i) ==
    IF i > Len(s) THEN <<>>
    ELSE IF MatchLen(pat, s, i) > 0
         THEN <<i>> \o FindAll(pat, s, i + MatchLen(pat, s, i))
         ELSE FindAll(pat, s, i + 1)

\* re.sub(pattern, '', s)
RECURSIVE ReSubFrom(_, _, _)
ReSubFrom(pat, s, i) ==
    IF i > Len(s) THEN <<>>
    ELSE IF MatchLen(pat, s, i) > 0
         THEN ReSubFrom(pat, s, i + MatchLen(pat, s, i))
         ELSE <<s[i]>> \o ReSubFrom(pat, s, i + 1)

ReSub(pat, s) == ReSubFrom(pat, s, 1)

\* the first group of the match of PAT_DIR at position i: the characters after "dir:"
DirGroup(s, i) == SubSeq(s, i + 5, i + MatchLen(PAT_DIR, s, i) - 1)

\* re.sub(r'\s+', ' ', s)
RECURSIVE CollapseSpaces(_)
CollapseSpaces(s) ==
    IF s = <<>> THEN <<>>
    ELSE IF IsSpace(Head(s))
         THEN <<" ">> \o CollapseSpaces(LStrip(s))
         ELSE <<Head(s)>> \o CollapseSpaces(Tail(s))

\* the value of modifiers['dir'] when no -dir: is found
NoDir == <<>>

\* parse_modifiers without line 1371: the -dir: token stays in the name
parse_modifiers_keeping_dir(name) ==
    LET s0   == Strip(name)
        dir_matches == FindAll(PAT_DIR, s0, 1)
        dir  == IF dir_matches # <<>> THEN Strip(DirGroup(s0, dir_matches[1])) ELSE NoDir
        s1   == s0
        sk_count   == Len(FindAll(PAT_SK, s1, 1))
        dk_count   == Len(FindAll(PAT_DK, s1, 1))
        sep_count  == Len(FindAll(PAT_SEP, s1, 1))
        anim_count == Len(FindAll(PAT_ANIM, s1, 1))
        s2   == Strip(ReSub(PAT_SEP, s1))
        s3   == Strip(ReSub(PAT_DK, s2))
        s4   == Strip(ReSub(PAT_SK, s3))
        s5   == Strip(ReSub(PAT_ANIM, s4))
    IN  [clean_name |-> Strip(CollapseSpaces(s5)),
         dir  |-> dir,
         sep  |-> sep_count > 0,
         dk   |-> dk_count > 0,
         sk   |-> sk_count > 0,
         anim |-> anim_count > 0]

parse_modifiers(name) ==
    LET s0   == Strip(name)
        dir_matches == FindAll(PAT_DIR, s0, 1)
        dir  == IF dir_matches # <<>> THEN Strip(DirGroup(s0, dir_matches[1])) ELSE NoDir
        s1   == IF dir_matches # <<>> THEN Strip(ReSub(PAT_DIR, s0)) ELSE s0
        sk_count   == Len(FindAll(PAT_SK, s1, 1))
        dk_count   == Len(FindAll(PAT_DK, s1, 1))
        sep_count  == Len(FindAll(PAT_SEP, s1, 1))
        anim_count == Len(FindAll(PAT_ANIM, s1, 1))
        s2   == Strip(ReSub(PAT_SEP, s1))
        s3   == Strip(ReSub(PAT_DK, s2))
        s4   == Strip(ReSub(PAT_SK, s3))
        s5   == Strip(ReSub(PAT_ANIM, s4))
    IN  [clean_name |-> Strip(CollapseSpaces(s5)),
         dir  |-> dir,
         sep  |-> sep_count > 0,
         dk   |-> dk_count > 0,
         sk   |-> sk_count > 0,
         anim |-> anim_count > 0]

(***************************************************************************)
(* Object names. Names are unique in the host: one base letter for each    *)
(* object, followed by modifiers.                                          *)
(***************************************************************************)
BaseName(o) == <<(<<"A", "B", "C", "D", "E", "F">>)[o]>>

SFX_DK  == <<" ", "-", "d", "k">>
SFX_SK  == <<" ", "-", "s", "k">>
SFX_DIR(d) == <<" ", "-", "d", "i", "r", ":", d>>

\* the modifier suffixes the scenes of the model use
Suffixes ==
    {<<>>, SFX_DK, SFX_SK, SFX_DK \o SFX_SK, SFX_DK \o SFX_DK, SFX_SK \o SFX_SK,
     SFX_DIR("V"), SFX_DIR("W"), SFX_DIR(".")}

\* the scene export filenames the model uses
SceneNames == {<<"s", "c", "e", "n", "e">>, <<"s">>, <<"s">> \o SFX_DIR("V")}

NamePool == {BaseName(o) \o sfx : o \in Obj, sfx \in Suffixes} \cup SceneNames

\* parse_modifiers over the names of the pool, computed once
ParsedPool == [n \in NamePool |-> parse_modifiers(n)]

\* parse_modifiers(name), read from the table for the names of the pool
ParseName(name) == IF name \in NamePool THEN ParsedPool[name] ELSE parse_modifiers(name)

\* the names of the scene, parsed: no operation renames an object or the scene file
ParseScene ==
    [n \in {objects[o].name : o \in Obj} \cup {scene_props.scene_export_filename}
        |-> ParseName(n)]

\* the call parse_modifiers(name) on a name of the scene
Modifiers(name) == parsed[name]

(***************************************************************************)
(* The scene: the predicates over one object.                              *)
(***************************************************************************)
EXPORTABLE_TYPES == {"MESH", "CURVE", "SURFACE", "META", "FONT", "ARMATURE"}

Modes == {"ALL", "VISIBLE", "RENDERABLE"}
Scopes == {"SCENE", "PARENT", "LAYER", "OBJECT"}

\* range(20): the layers of the host
NumLayers == 20
Layers == 0..(NumLayers - 1)

is_object_visible(obj, mode) ==
    CASE mode = "ALL" -> TRUE
      [] mode = "VISIBLE" -> ~(objects[obj].hide \/ objects[obj].hide_render)
      [] mode = "RENDERABLE" -> ~objects[obj].hide_render
      [] OTHER -> TRUE

should_export_object(obj, export_mode) ==
    IF Modifiers(objects[obj].name).dk THEN FALSE
    ELSE IF objects[obj].type \notin EXPORTABLE_TYPES THEN FALSE
    ELSE is_object_visible(obj, export_mode)

\* [x for x in seq if Test(x)]
RECURSIVE FilterSeq(_, _)
FilterSeq(seq, keep) ==
    IF seq = <<>> THEN <<>>
    ELSE (IF Head(seq) \in keep THEN <<Head(seq)>> ELSE <<>>) \o FilterSeq(Tail(seq), keep)

Range(seq) == {seq[i] : i \in DOMAIN seq}

(***************************************************************************)
(* Parent-based system functions.                                          *)
(***************************************************************************)
\* get_object_children without the recursive call: the direct children only
get_object_children_direct(obj) ==
    FilterSeq([i \in 1..NumObjects |-> i], {c \in Obj : objects[c].parent = obj})

RECURSIVE get_object_children(_)
RECURSIVE ChildrenFrom(_, _)
\* the loop "for child in bpy.data.objects" of get_object_children, from object i on
ChildrenFrom(obj, i) ==
    IF i > NumObjects THEN <<>>
    ELSE (IF objects[i].parent = obj THEN <<i>> \o get_object_children(i) ELSE <<>>)
         \o ChildrenFrom(obj, i + 1)

get_object_children(obj) == ChildrenFrom(obj, 1)

get_object_hierarchy(obj) == <<obj>> \o get_object_children(obj)

\* should_export_object(obj.parent) is called without a mode: its default, VISIBLE
is_root_object(obj) ==
    IF objects[obj].parent = None THEN TRUE
    ELSE IF Modifiers(objects[objects[obj].parent].name).dk THEN TRUE
    ELSE IF ~should_export_object(objects[obj].parent, "VISIBLE") THEN TRUE
    ELSE FALSE

\* the dictionary export_parents: root -> its exportable hierarchy
find_parent_export_roots(export_mode) ==
    LET exportable == {o \in Obj : should_export_object(o, export_mode)}
        roots == {o \in exportable :
                    /\ is_root_object(o)
                    /\ ~Modifiers(objects[o].name).dk
                    /\ ~Modifiers(objects[o].name).sk
                    /\ FilterSeq(get_object_hierarchy(o), exportable) # <<>>}
    IN  [o \in roots |-> FilterSeq(get_object_hierarchy(o), exportable)]

\* the root the loop "while root_obj.parent and root_obj.parent in selected_objects" ends at
RECURSIVE SelectedRootOf(_, _)
SelectedRootOf(obj, selection) ==
    IF objects[obj].parent # None /\ objects[obj].parent \in selection
    THEN SelectedRootOf(objects[obj].parent, selection)
    ELSE obj

get_selected_parent_roots(selection) ==
    [r \in {SelectedRootOf(o, selection) : o \in selection}
        |-> get_object_hierarchy(r)]

\* the layer resolver that files every object under its lowest layer only
find_all_layers_lowest_only(export_mode) ==
    LET on(l) == {o \in Obj : /\ l \in objects[o].layers
                              /\ \A k \in objects[o].layers : l <= k
                              /\ should_export_object(o, export_mode)}
        ordered == [i \in 1..NumObjects |-> i]
    IN  [l \in {k \in Layers : on(k) # {}} |-> FilterSeq(ordered, on(l))]

\* the dictionary export_layers: layer index -> the exportable objects on it
find_all_layers_with_objects(export_mode) ==
    LET on(l) == {o \in Obj : l \in objects[o].layers /\ should_export_object(o, export_mode)}
        ordered == [i \in 1..NumObjects |-> i]
    IN  [l \in {k \in Layers : on(k) # {}} |-> FilterSeq(ordered, on(l))]

find_layer_export_roots(export_mode) == find_all_layers_with_objects(export_mode)

(***************************************************************************)
(* Paths: strings with "/" between the components.                         *)
(***************************************************************************)
\* os.path.join(a, b)
os_path_join(a, b) ==
    IF b # <<>> /\ Head(b) = "/" THEN b
    ELSE IF a = <<>> \/ a[Len(a)] = "/" THEN a \o b
    ELSE a \o <<"/">> \o b

\* the position of the last "/" of p, 0 when it has none
RECURSIVE LastSlash(_, _)
LastSlash(p, i) == IF i = 0 THEN 0 ELSE IF p[i] = "/" THEN i ELSE LastSlash(p, i - 1)

\* os.path.dirname(p)
os_path_dirname(p) ==
    LET i == LastSlash(p, Len(p)) IN
    IF i = 0 THEN <<>> ELSE IF i = 1 THEN <<"/">> ELSE SubSeq(p, 1, i - 1)

\* the directory p and the directories above it: what os.makedirs(p) leaves in place
RECURSIVE WithAncestors(_)
WithAncestors(p) ==
    IF p = <<>> \/ p = <<"/">> THEN {}
    ELSE {p} \cup WithAncestors(os_path_dirname(p))

\* the components of p[i..] pushed on st one by one, as the file system resolves a
\* path: "" and "." name the directory itself, ".." the one above
RECURSIVE NormWalk(_, _, _, _)
NormWalk(p, i, cur, st) ==
    LET pushed == IF cur = <<>> \/ cur = <<".">> THEN st
                  ELSE IF cur = <<".", ".">>
                       THEN (IF st # <<>> /\ st[Len(st)] # <<".", ".">>
                             THEN SubSeq(st, 1, Len(st) - 1)
                             ELSE IF p[1] = "/" THEN st ELSE Append(st, cur))
                       ELSE Append(st, cur)
    IN  IF i > Len(p) THEN pushed
        ELSE IF p[i] = "/" THEN NormWalk(p, i + 1, <<>>, pushed)
        ELSE NormWalk(p, i + 1, Append(cur, p[i]), st)

RECURSIVE JoinComponents(_)
JoinComponents(st) ==
    IF st = <<>> THEN <<>>
    ELSE IF Len(st) = 1 THEN st[1]
    ELSE st[1] \o <<"/">> \o JoinComponents(Tail(st))

\* the file or directory a path names (os.path.normpath): two paths name the same
\* file exactly when they are equal after this
NormPath(p) ==
    IF p = <<>> THEN <<>>
    ELSE LET joined == JoinComponents(NormWalk(p, 1, <<>>, <<>>))
         IN  IF p[1] = "/" THEN <<"/">> \o joined
             ELSE IF joined = <<>> THEN <<".">> ELSE joined

get_extension(format_type) ==
    CASE format_type = "OBJ" -> <<".", "o", "b", "j">>
      [] format_type = "FBX" -> <<".", "f", "b", "x">>
      [] format_type = "STL" -> <<".", "s", "t", "l">>
      [] format_type = "PLY" -> <<".", "p", "l", "y">>
      [] format_type = "DAE" -> <<".", "d", "a", "e">>
      [] format_type = "X3D" -> <<".", "x", "3", "d">>
      [] OTHER -> <<".", "o", "b", "j">>

get_final_export_path(base_path, dir_modifier, clean_name, scope, format_type) ==
    IF dir_modifier # NoDir
    THEN os_path_join(os_path_join(base_path, dir_modifier),
                      clean_name \o get_extension(format_type))
    ELSE os_path_join(base_path, clean_name \o get_extension(format_type))

resolve_export_directory(obj, parent_obj, export_scope, base_export_path) ==
    LET obj_modifiers == Modifiers(objects[obj].name)
        scene_modifiers == Modifiers(scene_props.scene_export_filename)
        parent_dir == IF parent_obj # None
                      THEN Modifiers(objects[parent_obj].name).dir ELSE NoDir
    IN  CASE export_scope = "SCENE" ->
               (IF scene_modifiers.dir # NoDir
                THEN os_path_join(base_export_path, scene_modifiers.dir)
                ELSE base_export_path)
          [] export_scope = "PARENT" ->
               (IF parent_dir # NoDir
                THEN os_path_join(base_export_path, parent_dir)
                ELSE base_export_path)
          [] export_scope = "LAYER" -> base_export_path
          [] export_scope = "OBJECT" ->
               (IF parent_dir # NoDir
                THEN os_path_join(base_export_path, parent_dir)
                ELSE IF obj_modifiers.dir # NoDir
                THEN os_path_join(base_export_path, obj_modifiers.dir)
                ELSE base_export_path)
          [] OTHER -> base_export_path

(***************************************************************************)
(* Validation of the export modifiers. An issue is its type and the parts  *)
(* its message is formatted from.                                          *)
(***************************************************************************)
LowerStr(str) == [i \in DOMAIN str |-> Lower(str[i])]

INVALID_CHARS == {"/", "\\", ":", "*", "?", "\"", "<", ">", "|"}

RESERVED_NAMES ==
    {<<"C", "O", "N">>, <<"P", "R", "N">>, <<"A", "U", "X">>, <<"N", "U", "L">>}
    \cup {<<"C", "O", "M", d>> : d \in {"1", "2", "3", "4", "5", "6", "7", "8", "9"}}
    \cup {<<"L", "P", "T", d>> : d \in {"1", "2", "3", "4", "5", "6", "7", "8", "9"}}

is_valid_directory_name(dir_name) ==
    IF dir_name = <<>> THEN FALSE
    ELSE IF \E i \in DOMAIN dir_name : dir_name[i] \in INVALID_CHARS THEN FALSE
    ELSE IF LowerStr(dir_name) \in {LowerStr(r) : r \in RESERVED_NAMES} THEN FALSE
    ELSE IF Strip(dir_name) # dir_name THEN FALSE
    ELSE IF Head(dir_name) = "." \/ dir_name[Len(dir_name)] = "." THEN FALSE
    ELSE TRUE

Issue(type, text, item_type, name, count, modifier, values) ==
    [type |-> type, text |-> text, item_type |-> item_type, name |-> name,
     count |-> count, modifier |-> modifier, values |-> values]

\* the boolean modifiers, in the order modifier_patterns lists them
BooleanModifiers == <<[modifier |-> "-sep", pat |-> PAT_SEP], [modifier |-> "-dk", pat |-> PAT_DK],
                      [modifier |-> "-sk", pat |-> PAT_SK], [modifier |-> "-anim", pat |-> PAT_ANIM]>>

\* the loop over modifier_patterns, for the boolean modifiers from the k-th on
RECURSIVE BooleanDuplicates(_, _, _, _)
BooleanDuplicates(original_name, clean_name, item_type, k) ==
    IF k > Len(BooleanModifiers) THEN <<>>
    ELSE LET count == Len(FindAll(BooleanModifiers[k].pat, original_name, 1))
         IN  (IF count > 1
              THEN <<Issue("WARNING", "duplicate modifiers found (redundant)", item_type,
                           clean_name, count, BooleanModifiers[k].modifier, <<>>)>>
              ELSE <<>>)
             \o BooleanDuplicates(original_name, clean_name, item_type, k + 1)

check_duplicate_modifiers(original_name, clean_name, item_type) ==
    LET matches == FindAll(PAT_DIR, original_name, 1)
        dir_values == [i \in DOMAIN matches |-> DirGroup(original_name, matches[i])]
        dir_issues ==
            IF Len(matches) > 1
            THEN <<Issue("ERROR", "duplicate -dir modifiers found", item_type, clean_name,
                         Len(matches), "-dir", dir_values)>>
            ELSE IF Len(matches) = 1 /\ ~is_valid_directory_name(dir_values[1])
            THEN <<Issue("ERROR", "-dir value contains invalid directory characters",
                         item_type, clean_name, 1, "-dir", dir_values)>>
            ELSE <<>>
        dk_count == Len(FindAll(PAT_DK, original_name, 1))
        sk_count == Len(FindAll(PAT_SK, original_name, 1))
    IN  dir_issues
        \o BooleanDuplicates(original_name, clean_name, item_type, 1)
        \o (IF dk_count > 0 /\ sk_count > 0
            THEN <<Issue("ERROR", "-dk and -sk cannot be used together (conflicting exclusion)",
                         item_type, clean_name, 0, "-dk -sk", <<>>)>>
            ELSE <<>>)

\* check_duplicate_modifiers over the object names of the pool, computed once
DuplicatesPool ==
    [n \in NamePool |-> check_duplicate_modifiers(n, ParsedPool[n].clean_name, "Object")]

\* the issues validate_export_modifiers appends for the objects from the i-th on
RECURSIVE ObjectIssues(_, _)
ObjectIssues(sk_behavior, i) ==
    IF i > NumObjects THEN <<>>
    ELSE LET modifiers == Modifiers(objects[i].name)
             children == get_object_children(i)
         IN  (IF objects[i].name \in NamePool THEN DuplicatesPool[objects[i].name]
              ELSE check_duplicate_modifiers(objects[i].name, modifiers.clean_name, "Object"))
             \o (IF sk_behavior = "BASIC"
                 THEN (IF modifiers.sk /\ modifiers.dk
                       THEN <<Issue("ERROR", "-sk and -dk are incompatible (conflicting exclusion)",
                                    "Object", modifiers.clean_name, 0, "-sk -dk", <<>>)>>
                       ELSE <<>>)
                 ELSE IF sk_behavior = "STRICT" /\ modifiers.sk /\ children # <<>>
                 THEN <<Issue("WARNING", "-sk used on parent object with children (strict mode)",
                              "Object", modifiers.clean_name, Len(children), "-sk", <<>>)>>
                 ELSE <<>>)
             \o ObjectIssues(sk_behavior, i + 1)

validate_export_modifiers(sk_behavior) ==
    ObjectIssues(sk_behavior, 1)
    \o check_duplicate_modifiers(scene_props.scene_export_filename,
                                 Modifiers(scene_props.scene_export_filename).clean_name,
                                 "Scene filename")

(***************************************************************************)
(* Local origins: moving objects to the 3D cursor and back. A position is  *)
(* the translation of matrix_world; original_positions is a function from  *)
(* the objects saved to their saved positions.                             *)
(***************************************************************************)
ObjSeq == [i \in 1..NumObjects |-> i]

\* the objects of a set in the order bpy.data.objects lists them
InOrder(set) == FilterSeq(ObjSeq, set)

\* dict.update: the entries of new replace those of old
DictUpdate(old, new) ==
    [k \in DOMAIN old \cup DOMAIN new |-> IF k \in DOMAIN new THEN new[k] ELSE old[k]]

RECURSIVE SumPositions(_, _)
SumPositions(seq, pos) ==
    IF seq = <<>> THEN 0 ELSE pos[Head(seq)] + SumPositions(Tail(seq), pos)

get_parent_center(parent_objects, pos) ==
    IF parent_objects = <<>> THEN 0
    ELSE SumPositions(parent_objects, pos) \div Len(parent_objects)

\* the positions after the move, and the original_positions it returns
move_parent_to_origin(parent_objects, cursor_location, pos) ==
    LET offset == cursor_location - get_parent_center(parent_objects, pos)
    IN  [pos |-> [o \in Obj |-> IF o \in Range(parent_objects) THEN pos[o] + offset
                                ELSE pos[o]],
         original_positions |-> [o \in Range(parent_objects) |-> pos[o]]]

move_to_3d_cursor(obj, cursor_location, pos) ==
    [pos EXCEPT ![obj] = pos[obj] + (cursor_location - pos[obj])]

\* the loop over parent_roots.items() of the PARENT prelude, from the k-th root on
RECURSIVE MoveParentUnits(_, _, _, _)
MoveParentUnits(roots, parent_roots, cursor_location, st) ==
    IF roots = <<>> THEN st
    ELSE CHOOSE after \in
            {MoveParentUnits(Tail(roots), parent_roots, cursor_location,
                 [pos |-> moved.pos,
                  original_positions |->
                      DictUpdate(st.original_positions, moved.original_positions)]) :
             moved \in {move_parent_to_origin(parent_roots[Head(roots)], cursor_location,
                                              st.pos)}} : TRUE

\* "original_positions[obj] = obj.matrix_world.copy(); move_to_3d_cursor(obj, ...)"
\* for every object of a list, in its order
RECURSIVE MoveEach(_, _, _)
MoveEach(seq, cursor_location, st) ==
    IF seq = <<>> THEN st
    ELSE CHOOSE after \in
            {MoveEach(Tail(seq), cursor_location, next) :
             next \in {[pos |-> move_to_3d_cursor(Head(seq), cursor_location, st.pos),
                        original_positions |->
                            DictUpdate(st.original_positions,
                                       (Head(seq) :> st.pos[Head(seq)]))]}} : TRUE

\* the lists of a dictionary keyed by integers, one after the other, keys ascending
RECURSIVE Flatten(_, _, _)
Flatten(dict, k, top) ==
    IF k > top THEN <<>>
    ELSE (IF k \in DOMAIN dict THEN dict[k] ELSE <<>>) \o Flatten(dict, k + 1, top)

\* restore_original_position for every saved object
restore_positions(original_positions, pos) ==
    [o \in Obj |-> IF o \in DOMAIN original_positions THEN original_positions[o] ELSE pos[o]]

NoPositions == <<>>

(***************************************************************************)
(* The tracking file. Its contents are absent, not parseable as JSON, JSON *)
(* that is no mapping, or a mapping from settings keys to records.         *)
(***************************************************************************)
TrackAbsent  == [kind |-> "absent", data |-> <<>>]
TrackCorrupt == [kind |-> "corrupt", data |-> <<>>]
TrackNotDict == [kind |-> "notdict", data |-> <<>>]
TrackDict(data) == [kind |-> "dict", data |-> data]

\* what load_track_data returns: a missing or unparseable file is an empty mapping
load_track_data(file) ==
    IF file.kind \in {"absent", "corrupt"} THEN TrackDict(<<>>) ELSE file

\* the first n elements of a list: seq[:n]
FirstN(seq, n) == IF Len(seq) <= n THEN seq ELSE SubSeq(seq, 1, n)

\* the last n elements of a list: seq[-n:]
LastN(seq, n) == IF Len(seq) <= n THEN seq ELSE SubSeq(seq, Len(seq) - n + 1, Len(seq))

\* "Keep only last 10 history entries"
HistoryLimit == 10

\* [raised, saved, file]: whether update_track_file raised, whether it saved the
\* ledger, and the tracking file afterwards
update_track_file(exported_files, export_path, file) ==
    IF ~prefs.enable_export_tracking
    THEN [raised |-> FALSE, saved |-> FALSE, file |-> file]
    ELSE LET track_data == load_track_data(file)
             settings_key == <<export_path, scene_props.export_scope, scene_props.export_mode>>
             old_history == IF settings_key \in DOMAIN track_data.data
                            THEN track_data.data[settings_key].history ELSE <<>>
             entry == [last_export |-> [timestamp |-> now,
                                        files |-> exported_files,
                                        format |-> scene_props.export_format,
                                        scope |-> scene_props.export_scope,
                                        mode |-> scene_props.export_mode,
                                        export_path |-> export_path],
                       history |-> LastN(Append(old_history,
                                            [timestamp |-> now + 1,
                                             files |-> exported_files,
                                             format |-> scene_props.export_format,
                                             scope |-> scene_props.export_scope,
                                             mode |-> scene_props.export_mode]),
                                         HistoryLimit)]
         IN  IF track_data.kind # "dict"
             THEN [raised |-> TRUE, saved |-> FALSE, file |-> file]
             ELSE [raised |-> FALSE, saved |-> TRUE,
                   file |-> TrackDict(DictUpdate(track_data.data, (settings_key :> entry)))]

\* the log of saved runs after a call of update_track_file that returned track; the
\* call reads the clock twice, for last_export and for the history entry
Recorded(track) ==
    IF track.saved
    THEN Append(recorded, [key |-> <<scene_props.export_path, scene_props.export_scope,
                                     scene_props.export_mode>>,
                           timestamp |-> now + 1])
    ELSE recorded

(***************************************************************************)
(* Orphan detection and cleanup. files and folders are the files and       *)
(* directories that exist, each under the one path the file system knows   *)
(* it by; the ledger holds paths as the export built them. A list whose    *)
(* order is that of a Python set is the set of its elements.               *)
(***************************************************************************)
\* the file or directory f lies inside the directory d
IsUnder(f, d) ==
    IF d = <<"/">> THEN Len(f) > 1 /\ f[1] = "/"
    ELSE Len(f) > Len(d) + 1 /\ SubSeq(f, 1, Len(d) + 1) = d \o <<"/">>

supported_extensions ==
    {get_extension(f) : f \in {"OBJ", "FBX", "STL", "PLY", "DAE", "X3D"}}

\* the paths os.walk(top) and os.path.join(root, file) give for the files inside top
\* whose extension is a supported one
os_walk(top, files) ==
    LET inside == {f \in files : IsUnder(f, NormPath(top))}
        relative(f) == IF NormPath(top) = <<"/">> THEN Tail(f)
                       ELSE SubSeq(f, Len(NormPath(top)) + 2, Len(f))
        name(f) == SubSeq(f, LastSlash(f, Len(f)) + 1, Len(f))
        ext(f) == IF Len(name(f)) > 4 /\ \E i \in 1..(Len(name(f)) - 4) : name(f)[i] # "."
                  THEN LowerStr(SubSeq(name(f), Len(name(f)) - 3, Len(name(f))))
                  ELSE <<>>
    IN  {os_path_join(top, relative(f)) : f \in {g \in inside : ext(g) \in supported_extensions}}

\* [raised, orphans]: whether find_orphaned_files raised, and the paths it returned
find_orphaned_files(file, files, folders) ==
    LET track_data == load_track_data(file).data
        all_tracked_files ==
            UNION {Range(track_data[k].last_export.files) : k \in DOMAIN track_data}
        current_export_paths ==
            {track_data[k].last_export.export_path : k \in DOMAIN track_data}
        existing == {e \in current_export_paths : NormPath(e) \in folders \cup files}
    IN  IF load_track_data(file).kind # "dict" THEN [raised |-> TRUE, orphans |-> {}]
        ELSE [raised |-> FALSE,
              orphans |-> UNION {os_walk(e, files) : e \in existing} \ all_tracked_files]

\* a cleanup_empty_folders_func that removes only the directories that were empty
\* when the walk started
cleanup_empty_folders_once(file, files, folders) ==
    LET track_data == load_track_data(file).data
        export_paths == {e \in {track_data[k].last_export.export_path : k \in DOMAIN track_data} :
                            NormPath(e) \in folders \cup files}
    IN  {d \in folders :
            ~ /\ \E e \in export_paths : IsUnder(d, NormPath(e))
              /\ ~ \E f \in files \cup folders : IsUnder(f, d)}

\* the directories left by cleanup_empty_folders_func: an empty directory inside an
\* export path of the ledger is removed, the innermost first
cleanup_empty_folders_func(file, files, folders) ==
    LET track_data == load_track_data(file).data
        export_paths == {e \in {track_data[k].last_export.export_path : k \in DOMAIN track_data} :
                            NormPath(e) \in folders \cup files}
    IN  {d \in folders :
            ~ /\ \E e \in export_paths : IsUnder(d, NormPath(e))
              /\ ~ \E f \in files : IsUnder(f, d)}

\* deleted_files after the loop over the orphans: os.remove raises on the files of
\* undeletable, and the loop goes on with the next orphan
RemoveOrphansReportingAll(orphans, undeletable) == orphans
RemoveOrphans(orphans, undeletable) == {o \in orphans : NormPath(o) \notin undeletable}

\* the filter of a files list: what is neither deleted nor missing stays, in order
StillListedUnlessDeleted(seq, deleted_files, existing) ==
    FilterSeq(seq, {f \in Range(seq) : f \notin deleted_files})
StillListed(seq, deleted_files, existing) ==
    FilterSeq(seq, {f \in Range(seq) : f \notin deleted_files /\ NormPath(f) \in existing})

\* cleanup_orphaned_files without its ledger update: the orphans are removed and the
\* ledger is saved as it was loaded
cleanup_orphaned_files_only(cleanup_empty_folders, undeletable, file, files, folders) ==
    LET found == find_orphaned_files(file, files, folders)
        deleted_files == RemoveOrphans(found.orphans, undeletable)
        kept == files \ {NormPath(o) : o \in deleted_files}
    IN  IF found.raised
        THEN [raised |-> TRUE, found |-> {}, deleted |-> {}, disk |-> files,
              dirs |-> folders, file |-> file]
        ELSE [raised |-> FALSE, found |-> found.orphans, deleted |-> deleted_files,
              disk |-> kept,
              dirs |-> IF cleanup_empty_folders
                       THEN cleanup_empty_folders_func(file, kept, folders) ELSE folders,
              file |-> load_track_data(file)]

\* [raised, found, deleted, disk, dirs, file]: what cleanup_orphaned_files found,
\* returns and leaves
cleanup_orphaned_files(cleanup_empty_folders, undeletable, file, files, folders) ==
    LET found == find_orphaned_files(file, files, folders)
        deleted_files == RemoveOrphans(found.orphans, undeletable)
        kept == files \ {NormPath(o) : o \in deleted_files}
        left == IF cleanup_empty_folders THEN cleanup_empty_folders_func(file, kept, folders)
                ELSE folders
        track_data == load_track_data(file).data
        still(seq) == StillListed(seq, deleted_files, kept \cup left)
        cleaned(path_data) ==
            [last_export |-> [path_data.last_export EXCEPT !.files = still(@)],
             history |-> [i \in DOMAIN path_data.history |->
                             [path_data.history[i] EXCEPT !.files = still(@)]]]
    IN  IF found.raised
        THEN [raised |-> TRUE, found |-> {}, deleted |-> {}, disk |-> files,
              dirs |-> folders, file |-> file]
        ELSE [raised |-> FALSE, found |-> found.orphans, deleted |-> deleted_files,
              disk |-> kept, dirs |-> left,
              file |-> TrackDict([k \in DOMAIN track_data |-> cleaned(track_data[k])])]

\* the ledger generate_track_file_template saves
generate_track_file_template ==
    TrackDict(<<scene_props.export_path, scene_props.export_scope, scene_props.export_mode>>
              :> [last_export |-> [timestamp |-> now,
                                   files |-> <<>>,
                                   format |-> scene_props.export_format,
                                   scope |-> scene_props.export_scope,
                                   mode |-> scene_props.export_mode,
                                   export_path |-> scene_props.export_path,
                                   template_generated |-> TRUE],
                  history |-> <<>>])

(***************************************************************************)
(* One export run. A unit is one output file: its path, the objects        *)
(* selected for it, and whether the loop skips it before the exporter is   *)
(* called. The exporter of the host fails on a unit exactly when it is     *)
(* handed a broken object. Where a loop carries a value from one iteration *)
(* to the next, CHOOSE over a singleton names the value once computed.     *)
(***************************************************************************)
Unit(path, objs) == [path |-> path, objs |-> objs]

\* the directories after ensure_directory_exists(filepath)
ensure_directory_exists(filepath, existing) ==
    LET directory == os_path_dirname(filepath)
    IN  IF directory # <<>> /\ NormPath(directory) \notin existing
        THEN existing \cup WithAncestors(NormPath(directory)) ELSE existing

\* "%d" % n for the layer numbers
Digit(d) == (<<"0", "1", "2", "3", "4", "5", "6", "7", "8", "9">>)[d + 1]
FormatInt(n) == IF n < 10 THEN <<Digit(n)>> ELSE <<Digit(n \div 10), Digit(n % 10)>>

\* the body of one iteration of an export loop, from ensure_directory_exists on
ExportUnit(unit, st) ==
    LET ok == unit.objs \cap broken = {}
        made == ensure_directory_exists(unit.path, st.dirs)
    IN  IF unit.objs = {}
        THEN [st EXCEPT !.dirs = made, !.selected = {}]
        ELSE [dirs |-> made,
              selected |-> unit.objs,
              disk |-> IF ok THEN st.disk \cup {NormPath(unit.path)} ELSE st.disk,
              exported_files |-> IF ok THEN Append(st.exported_files, unit.path)
                                 ELSE st.exported_files,
              success_count |-> IF ok THEN st.success_count + 1 ELSE st.success_count,
              exports |-> Append(st.exports, [path |-> unit.path, objs |-> unit.objs,
                                              ok |-> ok])]

RECURSIVE ExportUnits(_, _)
ExportUnits(units, st) ==
    IF units = <<>> THEN st
    ELSE CHOOSE after \in
            {ExportUnits(Tail(units), next) : next \in {ExportUnit(Head(units), st)}} : TRUE

\* the state an export loop starts from, os.makedirs(export_path) done
LoopStart ==
    [dirs |-> dirs \cup WithAncestors(NormPath(scene_props.export_path)),
     selected |-> selected_objects, disk |-> disk,
     exported_files |-> <<>>, success_count |-> 0, exports |-> <<>>]

\* the "finally" of export_main and export_selected: ledger first, positions second
Finally(entry, selection, status, moved, done) ==
    CHOOSE run \in {
        [entry |-> entry,
         selection |-> selection,
         status |-> IF track.raised THEN "EXCEPTION" ELSE status,
         before |-> matrix_world,
         matrix_world |-> IF track.raised \/ DOMAIN moved.original_positions = {}
                          THEN moved.pos
                          ELSE restore_positions(moved.original_positions, moved.pos),
         moved |-> DOMAIN moved.original_positions,
         selected |-> done.selected, disk |-> done.disk, dirs |-> done.dirs,
         exports |-> done.exports, exported_files |-> done.exported_files,
         track_file |-> track.file, saved |-> track.saved] :
        track \in {IF done.exported_files # <<>> /\ prefs.enable_export_tracking
                   THEN update_track_file(done.exported_files, scene_props.export_path,
                                          track_file)
                   ELSE [raised |-> FALSE, saved |-> FALSE, file |-> track_file]}} : TRUE

\* a run that returns before it touches anything
Untouched(entry, selection, status) ==
    [entry |-> entry, selection |-> selection, status |-> status,
     before |-> matrix_world, matrix_world |-> matrix_world, moved |-> {},
     selected |-> selected_objects, disk |-> disk, dirs |-> dirs,
     exports |-> <<>>, exported_files |-> <<>>, track_file |-> track_file,
     saved |-> FALSE]

\* the units of export_main, per scope, in the order the loops visit them
MainUnits ==
    LET base == scene_props.export_path
        fmt == scene_props.export_format
        parent_roots == find_parent_export_roots("VISIBLE")
        export_layers == find_all_layers_with_objects("VISIBLE")
        scene_mod == Modifiers(scene_props.scene_export_filename)
        parent_unit(r) ==
            Unit(get_final_export_path(base, Modifiers(objects[r].name).dir,
                                       Modifiers(objects[r].name).clean_name, "PARENT", fmt),
                 Range(parent_roots[r]))
        layer_unit(l) ==
            Unit(os_path_join(base, <<"l", "a", "y", "e", "r", "_">> \o FormatInt(l + 1)
                                    \o get_extension(fmt)),
                 Range(export_layers[l]))
        object_unit(o) ==
            Unit(os_path_join(resolve_export_directory(o, objects[o].parent, "OBJECT", base),
                              Modifiers(objects[o].name).clean_name \o get_extension(fmt)),
                 {o})
        sorted_layers == FilterSeq([i \in 1..NumLayers |-> i - 1], DOMAIN export_layers)
        sorted_roots == InOrder(DOMAIN parent_roots)
        sorted_objects == InOrder({o \in Obj : should_export_object(o, "VISIBLE")})
    IN  CASE scene_props.export_scope = "SCENE" ->
               <<Unit(get_final_export_path(base, scene_mod.dir, scene_mod.clean_name,
                                            "SCENE", fmt), Obj)>>
          [] scene_props.export_scope = "PARENT" ->
               [i \in DOMAIN sorted_roots |-> parent_unit(sorted_roots[i])]
          [] scene_props.export_scope = "LAYER" ->
               [i \in DOMAIN sorted_layers |-> layer_unit(sorted_layers[i])]
          [] scene_props.export_scope = "OBJECT" ->
               [i \in DOMAIN sorted_objects |-> object_unit(sorted_objects[i])]

\* the moves export_main makes before it exports
MainMoves ==
    LET start == [pos |-> matrix_world, original_positions |-> NoPositions]
        cursor_location == scene_props.cursor_location
        parent_roots == find_parent_export_roots("VISIBLE")
        export_layers == find_all_layers_with_objects("VISIBLE")
    IN  IF ~(prefs.export_individual_origins /\ scene_props.export_scope # "SCENE")
        THEN start
        ELSE CASE scene_props.export_scope = "PARENT" ->
                    (CHOOSE after \in
                        {MoveParentUnits(InOrder(DOMAIN roots), roots, cursor_location, start) :
                         roots \in {parent_roots}} : TRUE)
               [] scene_props.export_scope = "LAYER" ->
                    (CHOOSE after \in
                        {MoveEach(seq, cursor_location, start) :
                         seq \in {Flatten(export_layers, 0, NumLayers - 1)}} : TRUE)
               [] scene_props.export_scope = "OBJECT" ->
                    (CHOOSE after \in
                        {MoveEach(seq, cursor_location, start) :
                         seq \in {InOrder({o \in Obj : should_export_object(o, "VISIBLE")})}} :
                        TRUE)

\* export_main without its test of export_path
export_main_any_path(entry) ==
    CHOOSE run \in
        {Finally(entry, {},
                 IF done.success_count > 0 THEN "FINISHED" ELSE "CANCELLED",
                 moved,
                 IF scene_props.export_scope = "SCENE"
                 THEN [done EXCEPT !.selected = selected_objects] ELSE done) :
         moved \in {MainMoves},
         done \in {ExportUnits(units, LoopStart) : units \in {MainUnits}}} : TRUE

\* export_main(context), called from entry: everything the run leaves behind
export_main(entry) ==
    IF scene_props.export_path = <<>> THEN Untouched(entry, {}, "CANCELLED")
    ELSE CHOOSE run \in
            {Finally(entry, {},
                     IF done.success_count > 0 THEN "FINISHED" ELSE "CANCELLED",
                     moved,
                     IF scene_props.export_scope = "SCENE"
                     THEN [done EXCEPT !.selected = selected_objects] ELSE done) :
             moved \in {MainMoves},
             done \in {ExportUnits(units, LoopStart) : units \in {MainUnits}}} : TRUE

\* the units of export_selected, in the order the loops visit them
SelectedUnits(selection) ==
    LET base == scene_props.export_path
        fmt == scene_props.export_format
        parent_roots == get_selected_parent_roots(selection)
        kept_roots == InOrder({r \in DOMAIN parent_roots :
                                  ~(Modifiers(objects[r].name).dk
                                    \/ Modifiers(objects[r].name).sk)})
        parent_unit(r) ==
            Unit(get_final_export_path(base, Modifiers(objects[r].name).dir,
                                       Modifiers(objects[r].name).clean_name, "PARENT", fmt),
                 {o \in Range(parent_roots[r]) : should_export_object(o, "VISIBLE")})
        object_unit(o) ==
            Unit(os_path_join(resolve_export_directory(o, objects[o].parent, "OBJECT", base),
                              Modifiers(objects[o].name).clean_name \o get_extension(fmt)),
                 {o})
        sorted_objects == InOrder({o \in selection : should_export_object(o, "VISIBLE")})
    IN  IF scene_props.selected_export_type = "PARENT"
        THEN [i \in DOMAIN kept_roots |-> parent_unit(kept_roots[i])]
        ELSE [i \in DOMAIN sorted_objects |-> object_unit(sorted_objects[i])]

\* the moves export_selected makes before it exports
SelectedMoves(selection) ==
    LET parent_roots == get_selected_parent_roots(selection)
        all_export_objects ==
            IF scene_props.selected_export_type = "PARENT"
            THEN UNION {Range(parent_roots[r]) : r \in DOMAIN parent_roots}
            ELSE {o \in selection : should_export_object(o, "VISIBLE")}
        start == [pos |-> matrix_world, original_positions |-> NoPositions]
    IN  IF prefs.export_individual_origins /\ all_export_objects # {}
        THEN CHOOSE after \in
                {MoveEach(seq, scene_props.cursor_location, start) :
                 seq \in {InOrder(all_export_objects)}} : TRUE
        ELSE start

\* export_selected(context, selected_items): everything the run leaves behind
export_selected(selection) ==
    IF scene_props.export_path = <<>>
    THEN Untouched("export_selected", selection, "CANCELLED")
    ELSE CHOOSE run \in
            {Finally("export_selected", selection,
                     IF done.success_count > 0 THEN "FINISHED" ELSE "CANCELLED",
                     moved, done) :
             moved \in {SelectedMoves(selection)},
             done \in {ExportUnits(units, LoopStart) :
                           units \in {SelectedUnits(selection)}}} : TRUE

(***************************************************************************)
(* The entry points. A frame of the stack is an export run that has been   *)
(* started and has not returned; clears says whether the entry point       *)
(* resets ExportState.is_exporting when the run returns.                   *)
(***************************************************************************)
Frame(entry, selection, clears) == [entry |-> entry, selection |-> selection, clears |-> clears]

Refused(entry) ==
    [entry |-> entry, selection |-> {}, status |-> "REFUSED",
     before |-> matrix_world, matrix_world |-> matrix_world, moved |-> {},
     selected |-> selected_objects, disk |-> disk, dirs |-> dirs,
     exports |-> <<>>, exported_files |-> <<>>, track_file |-> track_file,
     saved |-> FALSE]

RunVars == <<matrix_world, selected_objects, disk, dirs, track_file, now, recorded>>
SceneVars == <<objects, broken, scene_props, prefs, parsed, result>>

\* ADVANCED_GLB_OT_export.execute, up to the call of export_main
ExecuteExport ==
    /\ calls < MaxCalls
    /\ calls' = calls + 1
    /\ IF is_exporting
       THEN /\ last' = Refused("export")
            /\ UNCHANGED <<is_exporting, stack>>
       ELSE /\ is_exporting' = TRUE
            /\ stack' = Append(stack, Frame("export", {}, TRUE))
            /\ UNCHANGED last
    /\ UNCHANGED <<RunVars, SceneVars>>

\* ADVANCED_GLB_OT_export_selected.execute, up to the call of export_selected
ExecuteExportSelected ==
    /\ calls < MaxCalls
    /\ calls' = calls + 1
    /\ IF is_exporting \/ selected_objects = {}
       THEN /\ last' = Refused("export_selected")
            /\ UNCHANGED <<is_exporting, stack>>
       ELSE /\ is_exporting' = TRUE
            /\ stack' = Append(stack, Frame("export_selected", selected_objects, TRUE))
            /\ UNCHANGED last
    /\ UNCHANGED <<RunVars, SceneVars>>

\* on_save_handler, up to the call of export_main
OnSaveHandler ==
    /\ calls < MaxCalls
    /\ calls' = calls + 1
    /\ IF ~scene_props.auto_export_on_save \/ scene_props.export_path = <<>>
       THEN /\ last' = Refused("on_save")
            /\ UNCHANGED stack
       ELSE /\ stack' = Append(stack, Frame("on_save", {}, FALSE))
            /\ UNCHANGED last
    /\ UNCHANGED <<is_exporting, RunVars, SceneVars>>

\* a return that leaves ExportState.is_exporting as it finds it
ReturnKeepingFlag ==
    /\ stack # <<>>
    /\ \E frame \in {stack[Len(stack)]} :
       \E run \in {IF frame.entry = "export_selected"
                   THEN export_selected(frame.selection)
                   ELSE export_main(frame.entry)} :
           /\ last' = run
           /\ matrix_world' = run.matrix_world
           /\ selected_objects' = run.selected
           /\ disk' = run.disk
           /\ dirs' = run.dirs
           /\ track_file' = run.track_file
           /\ now' = IF run.saved THEN now + 2 ELSE now
           /\ recorded' = Recorded(run)
    /\ stack' = SubSeq(stack, 1, Len(stack) - 1)
    /\ UNCHANGED <<is_exporting, calls, SceneVars>>

\* the run on top of the stack executes and returns to its entry point
Return ==
    /\ stack # <<>>
    /\ \E frame \in {stack[Len(stack)]} :
       \E run \in {IF frame.entry = "export_selected"
                   THEN export_selected(frame.selection)
                   ELSE export_main(frame.entry)} :
           /\ last' = run
           /\ matrix_world' = run.matrix_world
           /\ selected_objects' = run.selected
           /\ disk' = run.disk
           /\ dirs' = run.dirs
           /\ track_file' = run.track_file
           /\ now' = IF run.saved THEN now + 2 ELSE now
           /\ recorded' = Recorded(run)
           /\ is_exporting' = IF frame.clears THEN FALSE ELSE is_exporting
    /\ stack' = SubSeq(stack, 1, Len(stack) - 1)
    /\ UNCHANGED <<calls, SceneVars>>

Next == ExecuteExport \/ ExecuteExportSelected \/ OnSaveHandler \/ Return

(***************************************************************************)
(* Scenes the host can hold.                                               *)
(***************************************************************************)
\* bpy.data.objects lists a parent before its children; no object is its own ancestor
Forests == {par \in [Obj -> Obj \cup {None}] : \A o \in Obj : par[o] < o}

\* viewport / render visibility: (hide, hide_render)
Visibilities == {<<FALSE, FALSE>>, <<TRUE, FALSE>>, <<FALSE, TRUE>>}

\* where the objects stand before any export: apart from each other and from the cursor
InitialPosition(o) == o * 46656

MkObject(name, type, parent, vis, layers) ==
    [name |-> name, type |-> type, parent |-> parent,
     hide |-> vis[1], hide_render |-> vis[2], layers |-> layers]

\* values of the variables a specification does not use
IdleProps == [export_path |-> <<>>, export_scope |-> "SCENE", export_mode |-> "VISIBLE",
              selected_export_type |-> "PARENT", export_format |-> "FBX",
              scene_export_filename |-> <<"s", "c", "e", "n", "e">>,
              auto_export_on_save |-> TRUE, cursor_location |-> 0]
IdlePrefs == [export_individual_origins |-> TRUE, enable_export_tracking |-> TRUE,
              sk_behavior |-> "BASIC"]
NoResult == [fn |-> "none"]
NoLast == [entry |-> "none", selection |-> {}, status |-> "NONE",
           before |-> <<>>, matrix_world |-> <<>>, moved |-> {},
           selected |-> {}, disk |-> {}, dirs |-> {},
           exports |-> <<>>, exported_files |-> <<>>, track_file |-> TrackAbsent,
           saved |-> FALSE]

\* the host at rest: nothing selected, moved, exported or written
IdleHost ==
    /\ matrix_world = [o \in Obj |-> InitialPosition(o)]
    /\ selected_objects = {}
    /\ broken = {}
    /\ is_exporting = FALSE
    /\ stack = <<>>
    /\ calls = 0
    /\ last = NoLast
    /\ disk = {}
    /\ dirs = {}
    /\ track_file = TrackAbsent
    /\ now = 0
    /\ recorded = <<>>

\* the variables no resolver, validator or path call changes
HostVars == <<objects, matrix_world, selected_objects, broken, scene_props, prefs,
              is_exporting, stack, calls, last, disk, dirs, track_file, now, recorded,
              parsed>>

(***************************************************************************)
(* The scope resolvers as pure functions of the scene: every scene of      *)
(* NumObjects objects, every mode.                                         *)
(***************************************************************************)
\* what one object of a resolver scene is: (name suffix, type, visibility)
ResolveProfiles ==
    {<<sfx, "MESH", v>> : sfx \in {<<>>, SFX_DK, SFX_SK}, v \in Visibilities}
    \cup {<<(<<>>), "EMPTY", <<FALSE, FALSE>>>>}

ResolveInit ==
    /\ \E par \in Forests, prof \in [Obj -> ResolveProfiles] :
          objects = [o \in Obj |->
                MkObject(BaseName(o) \o prof[o][1], prof[o][2], par[o], prof[o][3], {0})]
    /\ IdleHost
    /\ scene_props = IdleProps
    /\ prefs = IdlePrefs
    /\ result = NoResult
    /\ parsed = ParseScene

\* find_parent_export_roots(export_mode), as the dialog and the panel call it
ResolveParentRoots ==
    /\ result = NoResult
    /\ \E m \in Modes :
         result' = [fn |-> "find_parent_export_roots", mode |-> m,
                    value |-> find_parent_export_roots(m)]
    /\ UNCHANGED HostVars

\* the OBJECT scope of get_export_stats: one unit for every exportable object
ResolveObjects ==
    /\ result = NoResult
    /\ \E m \in Modes :
         result' = [fn |-> "object_units", mode |-> m,
                    value |-> [o \in {x \in Obj : should_export_object(x, m)} |-> <<o>>]]
    /\ UNCHANGED HostVars

ResolveNext == ResolveParentRoots \/ ResolveObjects

SpecResolve == ResolveInit /\ [][ResolveNext]_vars

(***************************************************************************)
(* Properties of the scope resolvers (SpecResolve).                        *)
(***************************************************************************)
HasSk(o) == Modifiers(objects[o].name).sk
HasDk(o) == Modifiers(objects[o].name).dk

\* o is r or a descendant of r by parent links
RECURSIVE IsInSubtree(_, _)
IsInSubtree(o, r) ==
    IF o = r THEN TRUE
    ELSE IF objects[o].parent = None THEN FALSE
    ELSE IsInSubtree(objects[o].parent, r)

\* the root test as the specification words it, under the mode being resolved
RootUnderMode(o, m) ==
    \/ objects[o].parent = None
    \/ ~should_export_object(objects[o].parent, m)
    \/ HasDk(objects[o].parent)

\* C7: parent-scope root detection uses the export mode being resolved: an
\* exportable entity without -sk is a root of the resolution iff it has no
\* parent, or its parent is not exportable under that mode, or its parent
\* carries -dk.
C7_RootUsesCurrentMode ==
    result.fn = "find_parent_export_roots" =>
        \A o \in Obj :
            (should_export_object(o, result.mode) /\ ~HasSk(o)) =>
                (o \in DOMAIN result.value <=> RootUnderMode(o, result.mode))

\* C8: the parent-scope and the object-scope resolvers produce a partition: no
\* entity belongs to two different output units of one resolution.
C8_UnitsAreDisjoint ==
    result.fn \in {"find_parent_export_roots", "object_units"} =>
        \A r1, r2 \in DOMAIN result.value :
            r1 # r2 => Range(result.value[r1]) \cap Range(result.value[r2]) = {}

\* the chain A -> B -> C in which B alone is not exportable in mode VISIBLE
IsHiddenMiddleChain ==
    /\ objects[1].parent = None /\ objects[2].parent = 1 /\ objects[3].parent = 2
    /\ should_export_object(1, "VISIBLE") /\ ~HasSk(1)
    /\ ~should_export_object(2, "VISIBLE")
    /\ should_export_object(3, "VISIBLE")
    /\ \A o \in Obj \ {1, 2, 3} : ~IsInSubtree(o, 1)

\* C9: the unit of a parent-scope root is the root plus all its descendants
\* by parent link, filtered afterwards by the export test, so an entity that
\* is not exportable does not cut off its exportable descendants; over the
\* chain A -> B -> C with B hidden, mode VISIBLE, A is a root and its unit is
\* exactly {A, C}.
C9_UnitIsFilteredSubtree ==
    result.fn = "find_parent_export_roots" =>
        /\ \A r \in DOMAIN result.value :
              Range(result.value[r]) =
                 {o \in Obj : IsInSubtree(o, r) /\ should_export_object(o, result.mode)}
        /\ (result.mode = "VISIBLE" /\ IsHiddenMiddleChain) =>
              (1 \in DOMAIN result.value /\ Range(result.value[1]) = {1, 3})

C9_Witness ==
    /\ result.fn = "find_parent_export_roots"
    /\ result.mode = "VISIBLE"
    /\ IsHiddenMiddleChain
    /\ objects[2].hide /\ objects[2].type = "MESH" /\ ~HasDk(2)
    /\ 1 \in DOMAIN result.value
    /\ Range(result.value[1]) = {1, 3}

(***************************************************************************)
(* The path resolver as a pure function: every forest, every combination   *)
(* of -dir: overrides.                                                     *)
(***************************************************************************)
\* the export directory the user has set
BASE == <<"/", "e">>

PathInit ==
    /\ \E par \in Forests, sfx \in [Obj -> {<<>>, SFX_DIR("V"), SFX_DIR("W")}] :
          objects = [o \in Obj |->
                MkObject(BaseName(o) \o sfx[o], "MESH", par[o], <<FALSE, FALSE>>, {0})]
    /\ IdleHost
    /\ scene_props \in {[IdleProps EXCEPT !.export_path = BASE, !.scene_export_filename = f] :
                            f \in {<<"s">>, <<"s">> \o SFX_DIR("V")}}
    /\ prefs = IdlePrefs
    /\ result = NoResult
    /\ parsed = ParseScene

ResolveExportDirectory ==
    /\ result = NoResult
    /\ \E o \in Obj, scope \in Scopes :
         result' = [fn |-> "resolve_export_directory", obj |-> o, scope |-> scope,
                    value |-> resolve_export_directory(o, objects[o].parent, scope,
                                                       scene_props.export_path)]
    /\ UNCHANGED HostVars

PathNext == ResolveExportDirectory

SpecPath == PathInit /\ [][PathNext]_vars

\* C3: for an object-unit whose own name carries a -dir: override the output
\* directory is base_dir joined with the object's own override, whatever its
\* parent carries; the parent's override is used only when the object has none.
C3_OwnDirOverrideWins ==
    (result.fn = "resolve_export_directory" /\ result.scope = "OBJECT") =>
        LET own == Modifiers(objects[result.obj].name).dir
            par == objects[result.obj].parent
        IN  /\ own # NoDir => result.value = os_path_join(scene_props.export_path, own)
            /\ (own = NoDir /\ par # None /\ Modifiers(objects[par].name).dir # NoDir) =>
                  result.value =
                     os_path_join(scene_props.export_path, Modifiers(objects[par].name).dir)

(***************************************************************************)
(* The validator as a pure function: every forest, every combination of    *)
(* -dk, -sk and repeated modifiers, both -sk behaviours.                   *)
(***************************************************************************)
ValidateInit ==
    /\ \E par \in Forests,
          sfx \in [Obj -> {<<>>, SFX_DK, SFX_SK, SFX_DK \o SFX_SK, SFX_DK \o SFX_DK}] :
          objects = [o \in Obj |->
                MkObject(BaseName(o) \o sfx[o], "MESH", par[o], <<FALSE, FALSE>>, {0})]
    /\ IdleHost
    /\ scene_props = IdleProps
    /\ prefs \in {[IdlePrefs EXCEPT !.sk_behavior = b] : b \in {"BASIC", "STRICT"}}
    /\ result = NoResult
    /\ parsed = ParseScene

\* ADVANCED_GLB_OT_validate_export_modifiers.execute
ValidateExportModifiers ==
    /\ result = NoResult
    /\ result' = [fn |-> "validate_export_modifiers", sk_behavior |-> prefs.sk_behavior,
                  value |-> validate_export_modifiers(prefs.sk_behavior)]
    /\ UNCHANGED HostVars

ValidateNext == ValidateExportModifiers

SpecValidate == ValidateInit /\ [][ValidateNext]_vars

\* the issues of type ERROR of a report that cite both -dk and -sk for object o
ConflictErrors(issues, o) ==
    {i \in DOMAIN issues :
        /\ issues[i].type = "ERROR"
        /\ issues[i].item_type = "Object"
        /\ issues[i].name = Modifiers(objects[o].name).clean_name
        /\ issues[i].modifier \in {"-dk -sk", "-sk -dk"}}

\* C5: for an entity whose name carries both -dk and -sk the validation
\* yields exactly one issue of type ERROR citing both directives, whatever
\* the sk_behavior setting.
C5_ExactlyOneConflictError ==
    result.fn = "validate_export_modifiers" =>
        \A o \in Obj :
            (HasDk(o) /\ HasSk(o)) => Cardinality(ConflictErrors(result.value, o)) = 1


(***************************************************************************)
(* The export entry points over scenes of NumObjects objects. Every slice  *)
(* starts the host with an export directory and one family of scenes, and  *)
(* runs the same entry points.                                             *)
(***************************************************************************)
\* what one object of an export scene is: (name suffix, type, visibility, layers)
Plain == <<(<<>>), "MESH", <<FALSE, FALSE>>, {0}>>
Hidden == <<(<<>>), "MESH", <<TRUE, FALSE>>, {0}>>
HiddenInRender == <<(<<>>), "MESH", <<FALSE, TRUE>>, {0}>>
OnTwoLayers == <<(<<>>), "MESH", <<FALSE, FALSE>>, {0, 1}>>
DontExport == <<SFX_DK, "MESH", <<FALSE, FALSE>>, {0}>>
SkipParent == <<SFX_SK, "MESH", <<FALSE, FALSE>>, {0}>>
Empty == <<(<<>>), "EMPTY", <<FALSE, FALSE>>, {0}>>

\* the scenes in which at most one object is not plain
OneSpecial(specials) ==
    {[o \in Obj |-> Plain]}
    \cup {[o \in Obj |-> IF o = s THEN p ELSE Plain] : s \in Obj, p \in specials}

SceneOf(par, prof) ==
    [o \in Obj |-> MkObject(BaseName(o) \o prof[o][1], prof[o][2], par[o],
                            prof[o][3], prof[o][4])]

ReadyProps == [IdleProps EXCEPT !.export_path = BASE]

\* the host before any entry point ran
HostAtRest ==
    /\ matrix_world = [o \in Obj |-> InitialPosition(o)]
    /\ is_exporting = FALSE
    /\ stack = <<>>
    /\ calls = 0
    /\ last = NoLast
    /\ disk = {}
    /\ dirs = {}
    /\ now = 0
    /\ recorded = <<>>
    /\ result = NoResult

\* plain scenes, every scope, with and without export directory and auto-export
Init ==
    /\ \E par \in Forests : objects = SceneOf(par, [o \in Obj |-> Plain])
    /\ HostAtRest
    /\ selected_objects \in SUBSET Obj
    /\ broken = {}
    /\ track_file = TrackAbsent
    /\ prefs = IdlePrefs
    /\ \E path \in {<<>>, BASE}, scope \in Scopes, auto \in BOOLEAN :
          scene_props = [IdleProps EXCEPT !.export_path = path, !.export_scope = scope,
                                          !.auto_export_on_save = auto]
    /\ parsed = ParseScene

Spec == Init /\ [][Next]_vars

\* local origins: an object hidden or on two layers, a broken object, a ledger that
\* is no mapping
OriginsInit ==
    /\ \E par \in Forests, prof \in OneSpecial({Hidden, OnTwoLayers}) :
          objects = SceneOf(par, prof)
    /\ HostAtRest
    /\ selected_objects \in {{}, Obj}
    /\ broken \in {{}, {1}}
    /\ track_file \in {TrackAbsent, TrackNotDict}
    /\ prefs = IdlePrefs
    /\ \E scope \in Scopes \ {"SCENE"}, type \in {"PARENT", "OBJECT"} :
          scene_props = [ReadyProps EXCEPT !.export_scope = scope,
                                           !.selected_export_type = type]
    /\ parsed = ParseScene

SpecOrigins == OriginsInit /\ [][Next]_vars

\* every scope and mode over scenes with one hidden, excluded or non-mesh object
ModesInit ==
    /\ \E par \in Forests, prof \in OneSpecial({Hidden, HiddenInRender, DontExport, Empty}) :
          objects = SceneOf(par, prof)
    /\ HostAtRest
    /\ selected_objects = {}
    /\ broken = {}
    /\ track_file = TrackAbsent
    /\ prefs \in {[IdlePrefs EXCEPT !.export_individual_origins = b] : b \in BOOLEAN}
    /\ \E scope \in Scopes, mode \in Modes :
          scene_props = [ReadyProps EXCEPT !.export_scope = scope, !.export_mode = mode]
    /\ parsed = ParseScene

SpecModes == ModesInit /\ [][Next]_vars

\* both validation behaviours over scenes with at most one -sk object
StrictInit ==
    /\ \E par \in Forests, prof \in OneSpecial({SkipParent}) : objects = SceneOf(par, prof)
    /\ HostAtRest
    /\ selected_objects \in {{}, Obj}
    /\ broken = {}
    /\ track_file = TrackAbsent
    /\ prefs \in {[IdlePrefs EXCEPT !.sk_behavior = b] : b \in {"BASIC", "STRICT"}}
    /\ \E scope \in Scopes, type \in {"PARENT", "OBJECT"} :
          scene_props = [ReadyProps EXCEPT !.export_scope = scope,
                                           !.selected_export_type = type]
    /\ parsed = ParseScene

SpecStrict == StrictInit /\ [][Next]_vars

\* every selection over scenes with one hidden or excluded object
SelectedInit ==
    /\ \E par \in Forests, prof \in OneSpecial({Hidden, DontExport}) :
          objects = SceneOf(par, prof)
    /\ HostAtRest
    /\ selected_objects \in SUBSET Obj
    /\ broken = {}
    /\ track_file = TrackAbsent
    /\ prefs \in {[IdlePrefs EXCEPT !.export_individual_origins = b] : b \in BOOLEAN}
    /\ \E type \in {"PARENT", "OBJECT"} :
          scene_props = [ReadyProps EXCEPT !.selected_export_type = type]
    /\ parsed = ParseScene

SpecSelected == SelectedInit /\ [][Next]_vars

\* an export run has returned from export_main / export_selected
Ran == last.status \in {"FINISHED", "CANCELLED", "EXCEPTION"}

\* C1: at most one export run is in progress, and while a run is in progress
\* ExportState.is_exporting is set
C1_GuardFlagCoversEveryRun ==
    /\ Len(stack) <= 1
    /\ stack # <<>> => is_exporting

\* C2: when export_main or export_selected has returned, by whatever exit path, every
\* object's world transform is the one it had immediately before the call
C2_TransformsRestored ==
    Ran => last.matrix_world = last.before

\* some object carrying -sk has descendants
SkWithDescendants ==
    \E o \in Obj : Modifiers(objects[o].name).sk /\ get_object_children(o) # <<>>

\* C4: with sk_behavior STRICT and an object carrying -sk that has descendants, an
\* export run calls no exporter, so writes no file, and does not return FINISHED
C4_StrictBlocksExport ==
    (Ran /\ prefs.sk_behavior = "STRICT" /\ SkWithDescendants)
        => (last.status # "FINISHED" /\ last.exports = <<>>)

\* the sets of objects the scope resolvers yield, as get_export_stats calls them
ResolverUnits(scope, mode) ==
    CASE scope = "SCENE" -> {{o \in Obj : should_export_object(o, mode)}}
      [] scope = "PARENT" ->
           {Range(find_parent_export_roots(mode)[r]) : r \in DOMAIN find_parent_export_roots(mode)}
      [] scope = "LAYER" ->
           {Range(find_layer_export_roots(mode)[l]) : l \in DOMAIN find_layer_export_roots(mode)}
      [] scope = "OBJECT" -> {{o} : o \in {x \in Obj : should_export_object(x, mode)}}

\* C6: the units export_main writes for scope S and mode M are the units the scope
\* resolver yields for (S, M), the ones get_export_stats counts
C6_ExportsWhatResolverYields ==
    (Ran /\ last.entry \in {"export", "on_save"} /\ scene_props.export_scope # "SCENE")
        => {last.exports[i].objs : i \in DOMAIN last.exports}
               = ResolverUnits(scene_props.export_scope, scene_props.export_mode)

\* C10: export-selected of type PARENT places, moves and writes only objects of the
\* supplied selection, and the root of every unit is a selected object whose parent is
\* absent or not selected
C10_SelectedParentStaysInSelection ==
    (Ran /\ last.entry = "export_selected" /\ scene_props.selected_export_type = "PARENT")
        => /\ \A r \in DOMAIN get_selected_parent_roots(last.selection) :
                /\ r \in last.selection
                /\ objects[r].parent = None \/ objects[r].parent \notin last.selection
                /\ Range(get_selected_parent_roots(last.selection)[r]) \subseteq last.selection
           /\ last.moved \subseteq last.selection
           /\ \A i \in DOMAIN last.exports : last.exports[i].objs \subseteq last.selection

(***************************************************************************)
(* The layer resolver as a pure function of the scene: objects on one or   *)
(* two of the 20 layers, visible, hidden or excluded, every mode.          *)
(***************************************************************************)
\* what one object of a layer scene is: (name suffix, type, visibility, layers)
LayerProfiles ==
    {Plain,
     <<(<<>>), "MESH", <<FALSE, FALSE>>, {5}>>,
     <<(<<>>), "MESH", <<FALSE, FALSE>>, {0, 5}>>,
     <<(<<>>), "MESH", <<TRUE, FALSE>>, {0, 5}>>,
     <<SFX_DK, "MESH", <<FALSE, FALSE>>, {NumLayers - 1}>>,
     <<(<<>>), "MESH", <<FALSE, FALSE>>, {NumLayers - 1}>>}

LayersInit ==
    /\ \E prof \in [Obj -> LayerProfiles] : objects = SceneOf([o \in Obj |-> None], prof)
    /\ IdleHost
    /\ scene_props = IdleProps
    /\ prefs = IdlePrefs
    /\ result = NoResult
    /\ parsed = ParseScene

\* find_all_layers_with_objects(export_mode), as find_layer_export_roots calls it
ResolveLayers ==
    /\ result = NoResult
    /\ \E m \in Modes :
         result' = [fn |-> "find_all_layers_with_objects", mode |-> m,
                    value |-> find_all_layers_with_objects(m)]
    /\ UNCHANGED HostVars

SpecLayers == LayersInit /\ [][ResolveLayers]_vars

\* C11: the layer resolver files every exportable object under each layer it is a
\* member of, has a unit for a layer index exactly when an exportable object is on
\* that layer, and knows only the indices 0..19
C11_LayerUnitsFollowMembership ==
    result.fn = "find_all_layers_with_objects" =>
        /\ DOMAIN result.value \subseteq 0..19
        /\ \A l \in 0..19 :
              l \in DOMAIN result.value
                  <=> \E o \in Obj : /\ l \in objects[o].layers
                                     /\ should_export_object(o, result.mode)
        /\ \A l \in DOMAIN result.value :
              Range(result.value[l]) = {o \in Obj : /\ l \in objects[o].layers
                                                    /\ should_export_object(o, result.mode)}

\* a hidden object on layers 0 and 5 is in both layer units under mode ALL
C11_Witness ==
    /\ result.fn = "find_all_layers_with_objects"
    /\ result.mode = "ALL"
    /\ \E o \in Obj : /\ objects[o].layers = {0, 5}
                      /\ objects[o].hide
                      /\ {0, 5} \subseteq DOMAIN result.value
                      /\ o \in Range(result.value[0]) \cap Range(result.value[5])

(***************************************************************************)
(* The ledger operators beside the export entry points. The host runs one  *)
(* operator at a time: the dialogs open when no export is in progress.     *)
(***************************************************************************)
\* a find_orphaned_files that saves the ledger it loaded
FindOrphanedFilesAndSave ==
    /\ stack = <<>>
    /\ \E found \in {find_orphaned_files(track_file, disk, dirs)} :
         result' = [fn |-> "find_orphaned_files", raised |-> found.raised,
                    value |-> found.orphans]
    /\ track_file' = load_track_data(track_file)
    /\ UNCHANGED <<objects, matrix_world, selected_objects, broken, scene_props, prefs,
                   is_exporting, stack, calls, last, disk, dirs, now, recorded, parsed>>

\* ADVANCED_GLB_OT_execute_order_66.draw: the dialog lists find_orphaned_files()
FindOrphanedFiles ==
    /\ stack = <<>>
    /\ \E found \in {find_orphaned_files(track_file, disk, dirs)} :
         result' = [fn |-> "find_orphaned_files", raised |-> found.raised,
                    value |-> found.orphans]
    /\ UNCHANGED HostVars

\* the files os.remove may raise on during one cleanup: at most MaxFailures of the
\* orphans
MaxFailures == 1
Undeletable(orphans) ==
    {u \in SUBSET {NormPath(o) : o \in orphans} : Cardinality(u) <= MaxFailures}

\* ADVANCED_GLB_OT_execute_order_66.execute
ExecuteOrder66 ==
    /\ stack = <<>>
    /\ calls < MaxCalls
    /\ calls' = calls + 1
    /\ \E cleanup_empty_folders \in BOOLEAN :
       \E undeletable \in Undeletable(find_orphaned_files(track_file, disk, dirs).orphans) :
       \E done \in {cleanup_orphaned_files(cleanup_empty_folders, undeletable, track_file,
                                           disk, dirs)} :
           /\ disk' = done.disk
           /\ dirs' = done.dirs
           /\ track_file' = done.file
           /\ result' = [fn |-> "cleanup_orphaned_files", raised |-> done.raised,
                         cleanup_empty_folders |-> cleanup_empty_folders,
                         found |-> done.found, undeletable |-> undeletable,
                         value |-> done.deleted, before |-> track_file,
                         files |-> disk, folders |-> dirs, call |-> calls + 1]
    /\ UNCHANGED <<objects, matrix_world, selected_objects, broken, scene_props, prefs,
                   is_exporting, stack, last, now, recorded, parsed>>

\* ADVANCED_GLB_OT_delete_track_file.execute
DeleteTrackFile ==
    /\ stack = <<>>
    /\ calls < MaxCalls
    /\ calls' = calls + 1
    /\ \E generate_template \in BOOLEAN :
         /\ track_file' = IF generate_template THEN generate_track_file_template
                          ELSE TrackAbsent
         /\ now' = IF generate_template THEN now + 1 ELSE now
         /\ result' = [fn |-> "delete_track_file", before |-> track_file,
                       call |-> calls + 1]
    /\ UNCHANGED <<objects, matrix_world, selected_objects, broken, scene_props, prefs,
                   is_exporting, stack, last, disk, dirs, recorded, parsed>>

\* an export directory holding two files of an earlier session, one of them in a
\* subdirectory, and an empty directory inside an empty one; an object named into the directory "."; a broken object; a
\* ledger that is absent, unparseable or no mapping; tracking on and off
TrackInit ==
    /\ \E prof \in OneSpecial({<<SFX_DIR("."), "MESH", <<FALSE, FALSE>>, {0}>>}) :
          objects = SceneOf([o \in Obj |-> None], prof)
    /\ matrix_world = [o \in Obj |-> InitialPosition(o)]
    /\ selected_objects = {}
    /\ broken \in {{}, {1}}
    /\ is_exporting = FALSE
    /\ stack = <<>>
    /\ calls = 0
    /\ last = NoLast
    /\ disk = {BASE \o <<"/", "X", ".", "f", "b", "x">>,
               BASE \o <<"/", "V", "/", "Y", ".", "F", "B", "X">>,
               BASE \o <<"/", "n", ".", "t", "x", "t">>}
    /\ dirs = {BASE, BASE \o <<"/", "V">>, BASE \o <<"/", "W">>,
               BASE \o <<"/", "W", "/", "Z">>}
    /\ track_file \in {TrackAbsent, TrackCorrupt, TrackNotDict}
    /\ now = 0
    /\ recorded = <<>>
    /\ prefs \in {[IdlePrefs EXCEPT !.enable_export_tracking = b] : b \in BOOLEAN}
    /\ \E scope \in {"PARENT", "LAYER", "OBJECT"} :
          scene_props = [ReadyProps EXCEPT !.export_scope = scope]
    /\ result = NoResult
    /\ parsed = ParseScene

SpecTrack ==
    TrackInit /\ [][Next \/ FindOrphanedFiles \/ ExecuteOrder66 \/ DeleteTrackFile]_vars

(***************************************************************************)
(* Properties of the ledger (SpecTrack).                                   *)
(***************************************************************************)
\* the files a run recorded, as the file system holds them, beside a file that is
\* no export
ExactlyRecorded ==
    {NormPath(f) : f \in Range(last.exported_files)}
    \cup {BASE \o <<"/", "n", ".", "t", "x", "t">>}

\* C12: once an export run has recorded its files F, find_orphaned_files on an
\* export directory that holds exactly the files F returns no orphan
C12_RoundTripFindsNoOrphans ==
    (Ran /\ last.saved /\ track_file = last.track_file)
        => find_orphaned_files(track_file, ExactlyRecorded, dirs)
               = [raised |-> FALSE, orphans |-> {}]

\* C13: when cleanup_orphaned_files(False) has deleted files and no operator ran
\* since, find_orphaned_files lists none of them and no last_export.files list of
\* the ledger names one of them
C13_DeletedFilesAreForgotten ==
    (/\ result.fn = "cleanup_orphaned_files"
     /\ ~result.cleanup_empty_folders
     /\ result.call = calls)
        => \A x \in result.value :
              /\ ~find_orphaned_files(track_file, disk, dirs).raised
              /\ \A o \in find_orphaned_files(track_file, disk, dirs).orphans :
                    NormPath(o) # NormPath(x)
              /\ track_file.kind = "dict"
              /\ \A k \in DOMAIN track_file.data :
                 \A f \in Range(track_file.data[k].last_export.files) :
                    NormPath(f) # NormPath(x)

\* cleanup_orphaned_files(False) has deleted two files, one of them a file the
\* ledger had recorded under another spelling of its path
C13_Witness ==
    /\ result.fn = "cleanup_orphaned_files"
    /\ ~result.cleanup_empty_folders
    /\ result.call = calls
    /\ Cardinality(result.value) >= 2
    /\ result.before.kind = "dict"
    /\ \E x \in result.value, k \in DOMAIN result.before.data :
       \E f \in Range(result.before.data[k].last_export.files) : NormPath(f) = NormPath(x)

\* C14: a call of find_orphaned_files changes neither the ledger nor the file
\* system, and a second call straight after it returns the same orphans
C14_FindIsReadOnly ==
    [][(result' # result /\ result'.fn = "find_orphaned_files")
          => /\ UNCHANGED <<disk, dirs, track_file>>
             /\ find_orphaned_files(track_file', disk', dirs')
                    = [raised |-> result'.raised, orphans |-> result'.value]]_vars

\* find_orphaned_files has returned orphans
C14_Witness ==
    /\ result.fn = "find_orphaned_files"
    /\ ~result.raised
    /\ Cardinality(result.value) >= 2

\* C16: whatever the ledger file holds, find_orphaned_files and
\* cleanup_orphaned_files return without raising, and so does the
\* update_track_file of an export run
C16_LedgerReadsNeverRaise ==
    /\ result.fn \in {"find_orphaned_files", "cleanup_orphaned_files"} => ~result.raised
    /\ Ran => last.status # "EXCEPTION"

\* C17: in parent, layer and object scope a run of export_main hands every unit
\* that has objects to the exporter, whichever units fail, and returns FINISHED
\* exactly when the exporter succeeded on at least one unit
C17_FailedUnitStopsNothing ==
    (Ran /\ last.entry \in {"export", "on_save"} /\ scene_props.export_scope # "SCENE")
        => /\ [i \in DOMAIN last.exports |-> last.exports[i].path]
                  = [i \in DOMAIN SelectSeq(MainUnits, LAMBDA u : u.objs # {})
                        |-> SelectSeq(MainUnits, LAMBDA u : u.objs # {})[i].path]
           /\ last.status = "FINISHED" <=> \E i \in DOMAIN last.exports : last.exports[i].ok

\* the output paths of the units the exporter succeeded on in the last run, in order
SucceededPaths ==
    LET done == SelectSeq(last.exports, LAMBDA e : e.ok)
    IN  [i \in DOMAIN done |-> done[i].path]

\* C18: an export run with tracking enabled in which a unit succeeded leaves, under
\* the key (export_path, scope, mode), a last_export.files that is the list of the
\* output paths of the units that succeeded in that run, and a newest history entry
\* with the same list
C18_LedgerListsSucceededUnits ==
    (Ran /\ prefs.enable_export_tracking /\ SucceededPaths # <<>>)
        => /\ last.track_file.kind = "dict"
           /\ \E k \in {<<scene_props.export_path, scene_props.export_scope,
                         scene_props.export_mode>>} :
                /\ k \in DOMAIN last.track_file.data
                /\ last.track_file.data[k].last_export.files = SucceededPaths
                /\ \E h \in {last.track_file.data[k].history} :
                      h # <<>> /\ h[Len(h)].files = SucceededPaths

\* C19: the ledger changes only when an export run in which a unit succeeded
\* returns, or in a cleanup of orphans
C19_OnlyExportAndCleanupWrite ==
    [][track_file' # track_file
          => \/ /\ last' # last
                /\ last'.saved
                /\ \E i \in DOMAIN last'.exports : last'.exports[i].ok
             \/ /\ result'.fn = "cleanup_orphaned_files"
                /\ result'.call = calls']_vars

(***************************************************************************)
(* The ledger over many runs: update_track_file called at the end of one   *)
(* successful run after the other, the scope changed and orphans cleaned   *)
(* up in between. All but one of the recorded files exist.                 *)
(***************************************************************************)
LedgerInit ==
    /\ objects = SceneOf([o \in Obj |-> None], [o \in Obj |-> Plain])
    /\ matrix_world = [o \in Obj |-> InitialPosition(o)]
    /\ selected_objects = {}
    /\ broken = {}
    /\ is_exporting = FALSE
    /\ stack = <<>>
    /\ calls = 0
    /\ last = NoLast
    /\ disk = {os_path_join(BASE, BaseName(o) \o get_extension("FBX")) : o \in Obj}
              \cup {BASE \o <<"/", "X", ".", "f", "b", "x">>}
    /\ dirs = {BASE}
    /\ track_file \in {TrackAbsent, TrackCorrupt}
    /\ now = 0
    /\ recorded = <<>>
    /\ scene_props = ReadyProps
    /\ prefs = IdlePrefs
    /\ result = NoResult
    /\ parsed = ParseScene

\* update_track_file(exported_files, export_path) as the finally of a run calls it
\* when every unit of the current scope was exported
UpdateTrackFile ==
    /\ stack = <<>>
    /\ Len(recorded) < MaxRecords
    /\ \E units \in {MainUnits} :
       \E track \in {update_track_file([i \in DOMAIN units |-> units[i].path],
                                       scene_props.export_path, track_file)} :
           /\ track_file' = track.file
           /\ now' = IF track.saved THEN now + 2 ELSE now
           /\ recorded' = Recorded(track)
           /\ result' = [fn |-> "update_track_file", raised |-> track.raised]
    /\ UNCHANGED <<objects, matrix_world, selected_objects, broken, scene_props, prefs,
                   is_exporting, stack, calls, last, disk, dirs, parsed>>

\* the user sets export_scope in the panel
SetExportScope ==
    /\ stack = <<>>
    /\ calls < MaxCalls
    /\ calls' = calls + 1
    /\ \E scope \in {"SCENE", "OBJECT"} \ {scene_props.export_scope} :
          scene_props' = [scene_props EXCEPT !.export_scope = scope]
    /\ UNCHANGED <<objects, matrix_world, selected_objects, broken, prefs, is_exporting,
                   stack, last, disk, dirs, track_file, now, recorded, parsed, result>>

SpecLedger == LedgerInit /\ [][UpdateTrackFile \/ SetExportScope \/ ExecuteOrder66]_vars

\* the timestamps of the runs recorded for a settings key, oldest first
RunsOf(settings_key) ==
    LET runs == SelectSeq(recorded, LAMBDA r : r.key = settings_key)
    IN  [i \in DOMAIN runs |-> runs[i].timestamp]

\* C15: the history of every settings key holds at most 10 entries, they are the 10
\* most recent runs recorded for the key in recording order, and the last of them
\* carries the file list of the key's last_export
C15_HistoryIsLastTenRuns ==
    track_file.kind = "dict" =>
        \A k \in DOMAIN track_file.data :
            LET history == track_file.data[k].history
                runs == RunsOf(k)
                shown == IF Len(runs) <= 10 THEN Len(runs) ELSE 10
            IN  /\ Len(history) <= 10
                /\ Len(history) = shown
                /\ \A i \in 1..shown :
                      history[i].timestamp = runs[Len(runs) - shown + i]
                /\ shown > 0
                /\ history[shown].files = track_file.data[k].last_export.files

\* eleven runs were recorded for one key, another key has a run of its own, and a
\* cleanup has since removed a missing file from the recorded lists
C15_Witness ==
    /\ track_file.kind = "dict"
    /\ Cardinality(DOMAIN track_file.data) = 2
    /\ \E k \in DOMAIN track_file.data :
          /\ Len(RunsOf(k)) > 10
          /\ RunsOf(k)[1] < track_file.data[k].history[1].timestamp
    /\ \E k \in DOMAIN track_file.data : track_file.data[k].last_export.files = <<>>

(***************************************************************************)
(* Properties of the entry points without an export directory (Spec).      *)
(***************************************************************************)
\* C20: with no export directory set, export_main and export_selected return
\* CANCELLED and move no object, create no directory, call no exporter and write no
\* ledger, and the save handler starts no export
C20_NoDirectoryNoExport ==
    scene_props.export_path = <<>> =>
        /\ Ran => /\ last.status = "CANCELLED"
                  /\ last.moved = {}
                  /\ last.matrix_world = last.before
                  /\ last.exports = <<>>
        /\ matrix_world = [o \in Obj |-> InitialPosition(o)]
        /\ dirs = {}
        /\ disk = {}
        /\ track_file = TrackAbsent
        /\ \A i \in DOMAIN stack : stack[i].entry # "on_save"
        /\ last.entry = "on_save" => last.status = "REFUSED"

\* with no export directory set, export_selected has returned CANCELLED for a
\* selection after export_main had
C20_Witness ==
    /\ scene_props.export_path = <<>>
    /\ calls = 2
    /\ last.entry = "export_selected"
    /\ last.selection # {}
    /\ last.status = "CANCELLED"
    /\ prefs.export_individual_origins
    /\ scene_props.auto_export_on_save

(***************************************************************************)
(* The guard flag over every exit of an export run: runs that export, that *)
(* export nothing, and that raise on a ledger that is no mapping.          *)
(***************************************************************************)
FlagInit ==
    /\ objects = SceneOf([o \in Obj |-> None], [o \in Obj |-> Plain])
    /\ HostAtRest
    /\ selected_objects \in {{}, Obj}
    /\ broken \in {{}, Obj}
    /\ track_file \in {TrackAbsent, TrackNotDict}
    /\ prefs = IdlePrefs
    /\ \E scope \in {"SCENE", "OBJECT"}, auto \in BOOLEAN :
          scene_props = [ReadyProps EXCEPT !.export_scope = scope,
                                           !.auto_export_on_save = auto]
    /\ parsed = ParseScene

SpecFlag == FlagInit /\ [][Next]_vars

\* C21: when the export run of an operator returns, whatever its outcome,
\* ExportState.is_exporting is false afterwards, and whenever no export is running
\* the flag is clear, so that an operator is refused only while an export runs
C21_FlagClearedOnEveryExit ==
    /\ [](stack = <<>> => ~is_exporting)
    /\ [][/\ (Len(stack') < Len(stack) /\ stack[Len(stack)].clears) => ~is_exporting'
          /\ (last' # last /\ last'.status = "REFUSED" /\ last'.entry = "export")
                => stack # <<>>]_vars

\* an export-selected run has raised out of its operator and the flag is clear
C21_Witness ==
    /\ last.entry = "export_selected"
    /\ last.status = "EXCEPTION"
    /\ stack = <<>>
    /\ ~is_exporting
    /\ calls = 2


(***************************************************************************)
(* The parser as a pure function over free-text names: every name made of  *)
(* at most MaxPieces pieces, and every name '<base> -dir:<D> -sk'.         *)
(***************************************************************************)
MaxPieces == 4

\* the fragments names are made of, directive look-alikes among them
Pieces ==
    {<<"A">>, <<" ">>, <<"-">>, <<"s">>, <<"k">>, <<"-", "s", "k">>, <<"-", "d", "k">>,
     <<"-", "d", "i", "r", ":", "V">>}

\* the names made of at most n pieces
RECURSIVE Words(_)
Words(n) ==
    IF n = 0 THEN {<<>>}
    ELSE LET shorter == Words(n - 1) IN shorter \cup {w \o p : w \in shorter, p \in Pieces}

\* name holds a match of one of the five modifier patterns
HasToken(name) ==
    \E pat \in {PAT_DIR, PAT_SEP, PAT_DK, PAT_SK, PAT_ANIM} : FindAll(pat, name, 1) # <<>>

\* the names '<base> -dir:<D> -sk': base without a token, D one piece without whitespace
Bases == {w \in Words(MaxPieces - 1) : ~HasToken(w)}
DirValues == {p \in Pieces : \A i \in DOMAIN p : ~IsSpace(p[i])}
DirSkName(base, D) == base \o <<" ", "-", "d", "i", "r", ":">> \o D \o SFX_SK
DirSkNames == {DirSkName(base, D) : base \in Bases, D \in DirValues}

ParseNames == Words(MaxPieces) \cup DirSkNames

\* object 1 carries the name under test
ParseInit ==
    /\ \E name \in ParseNames :
          objects = [o \in Obj |->
                MkObject(IF o = 1 THEN name ELSE BaseName(o), "MESH", None,
                         <<FALSE, FALSE>>, {0})]
    /\ IdleHost
    /\ scene_props = IdleProps
    /\ prefs = IdlePrefs
    /\ result = NoResult
    /\ parsed = ParseScene

\* parse_modifiers(obj.name), and parse_modifiers again on the clean name it returned
ParseModifiers ==
    /\ result = NoResult
    /\ LET value == Modifiers(objects[1].name)
       IN  result' = [fn |-> "parse_modifiers", name |-> objects[1].name, value |-> value,
                      again |-> parse_modifiers(value.clean_name),
                      should_export |-> should_export_object(1, "ALL")]
    /\ UNCHANGED HostVars

\* check_duplicate_modifiers(obj.name, clean_name, "Object"), as validation calls it
CheckDuplicateModifiers ==
    /\ result = NoResult
    /\ LET value == Modifiers(objects[1].name)
       IN  result' = [fn |-> "check_duplicate_modifiers", name |-> objects[1].name,
                      parse |-> value,
                      value |-> check_duplicate_modifiers(objects[1].name, value.clean_name,
                                                          "Object")]
    /\ UNCHANGED HostVars

SpecParse == ParseInit /\ [][ParseModifiers \/ CheckDuplicateModifiers]_vars

\* C22: parsing the clean name parse_modifiers returned finds no directive left and
\* returns the same clean name: dir None, sep, dk, sk and anim all false.
C22_CleanNameHoldsNoToken ==
    result.fn = "parse_modifiers" =>
        /\ result.again.clean_name = result.value.clean_name
        /\ result.again.dir = NoDir
        /\ ~result.again.sep /\ ~result.again.dk /\ ~result.again.sk /\ ~result.again.anim


Flag(value, k) == <<value.sep, value.dk, value.sk, value.anim>>[k]

\* C24: with n the number of occurrences of a boolean token in the (trimmed) name, the directive
\* is true iff n >= 1, and for n >= 2 validation emits a WARNING for that token whose
\* count is n (in particular for -dk: n >= 2 gives dk = true and a warning stating n).
C24_RepeatsAreCountedExactly ==
    result.fn = "check_duplicate_modifiers" =>
        \A k \in DOMAIN BooleanModifiers :
            LET n == Len(FindAll(BooleanModifiers[k].pat, Strip(result.name), 1))
                warnings == {i \in DOMAIN result.value :
                                /\ result.value[i].type = "WARNING"
                                /\ result.value[i].modifier = BooleanModifiers[k].modifier}
            IN  /\ Flag(result.parse, k) <=> n >= 1
                /\ n >= 2 => /\ warnings # {}
                             /\ \A i \in warnings : result.value[i].count = n

\* the word of name that starts at position i: the characters up to the next separator
RECURSIVE WordAt(_, _)
WordAt(name, i) ==
    IF i > Len(name) \/ IsSep(name[i]) THEN <<>>
    ELSE <<Lower(name[i])>> \o WordAt(name, i + 1)

\* the words of name that space and hyphen delimit, in lower case
WordsOf(name) ==
    {WordAt(name, i) : i \in {j \in DOMAIN name : ~IsSep(name[j]) /\ (j = 1 \/ IsSep(name[j - 1]))}}

\* C25: a name none of whose space- or hyphen-delimited words is sep, dk, sk or anim or
\* starts with 'dir:' parses to all directives off and to the name itself, whitespace
\* collapsed and trimmed; the object is not excluded from export.
C25_LookAlikesAreNoDirectives ==
    (/\ result.fn = "parse_modifiers"
     /\ \A w \in WordsOf(result.name) :
           /\ w \notin {PAT_SEP.lit, PAT_DK.lit, PAT_SK.lit, PAT_ANIM.lit}
           /\ ~(Len(w) >= 4 /\ SubSeq(w, 1, 4) = PAT_DIR.lit))
    => /\ result.value = [clean_name |-> Strip(CollapseSpaces(result.name)), dir |-> NoDir,
                          sep |-> FALSE, dk |-> FALSE, sk |-> FALSE, anim |-> FALSE]
       /\ result.should_export


(***************************************************************************)
(* Properties of the orphan cleanup (SpecTrack).                           *)
(***************************************************************************)
\* C26: a cleanup in which os.remove fails on some orphans still removes every other
\* orphan, returns exactly the orphans it removed, and leaves each failed orphan on
\* disk, where the next find_orphaned_files reports it again.
C26_CleanupIsBestEffort ==
    (/\ result.fn = "cleanup_orphaned_files"
     /\ ~result.raised
     /\ result.call = calls)
        => LET failed == {o \in result.found : NormPath(o) \in result.undeletable}
           IN  /\ result.value = result.found \ failed
               /\ \A o \in result.value : NormPath(o) \notin disk
               /\ \A o \in failed :
                     /\ NormPath(o) \in disk
                     /\ o \in find_orphaned_files(track_file, disk, dirs).orphans

\* of two orphans one could not be deleted and the other was
C26_Witness ==
    /\ result.fn = "cleanup_orphaned_files"
    /\ ~result.raised
    /\ result.call = calls
    /\ Cardinality(result.found) >= 2
    /\ \E o \in result.found : NormPath(o) \in result.undeletable /\ NormPath(o) \in disk
    /\ \E o \in result.found : o \in result.value /\ NormPath(o) \notin disk


\* os.path.exists(f) in the present file system
Exists(f) == NormPath(f) \in disk \cup dirs

TrackedDirs ==
    LET before == load_track_data(result.before).data
    IN  {NormPath(before[k].last_export.export_path) : k \in DOMAIN before}
           \cap (result.folders \cup result.files)

C29_FullExportStaysTracked ==
    [][(/\ last' # last
        /\ last'.entry = "export_selected"
        /\ last'.status # "REFUSED"
        /\ last.entry = "export"
        /\ last.saved)
       => \A f \in Range(last.exported_files) :
             NormPath(f) \in disk'
                => /\ f \notin find_orphaned_files(track_file', disk', dirs').orphans
                   /\ NormPath(f) \in cleanup_orphaned_files(FALSE, {}, track_file',
                                                            disk', dirs').disk]_vars


(***************************************************************************)
(* Exports of names whose -dir: value is no plain directory name: "..",    *)
(* an absolute path, and the plain name "V" beside them.                   *)
(***************************************************************************)
DirOverrides == {SFX_DIR("V"), SFX_DIR(".") \o <<".">>, SFX_DIR("/") \o <<"t">>}

EscapeInit ==
    /\ \E prof \in OneSpecial({<<sfx, "MESH", <<FALSE, FALSE>>, {0}>> : sfx \in DirOverrides}) :
          objects = SceneOf([o \in Obj |-> None], prof)
    /\ HostAtRest
    /\ selected_objects = {}
    /\ broken = {}
    /\ track_file = TrackAbsent
    /\ prefs = IdlePrefs
    /\ \E scope \in {"SCENE", "PARENT", "LAYER", "OBJECT"},
          filename \in {<<"s">> \o sfx : sfx \in DirOverrides \cup {<<>>}} :
          scene_props = [ReadyProps EXCEPT !.export_scope = scope,
                                           !.scene_export_filename = filename]
    /\ parsed = ParseScene

SpecEscape == EscapeInit /\ [][Next]_vars

\* p names the directory base or something inside it
AtOrBelow(p, base) == NormPath(p) = NormPath(base) \/ IsUnder(NormPath(p), NormPath(base))

\* C30: every output path of an export run lies inside the export directory, whatever
\* the -dir: values of the names: every file written and every directory created is
\* at or below export_path.
C30_OutputStaysInExportPath ==
    /\ \A i \in DOMAIN last.exports : AtOrBelow(last.exports[i].path, scene_props.export_path)
    /\ \A f \in disk : AtOrBelow(f, scene_props.export_path)
    /\ \A d \in dirs : AtOrBelow(d, scene_props.export_path)

=============================================================================
